---- MODULE Spec2Model ----
(***************************************************************************)
(* State-machine model of the Lame encoder context of src/lib.rs: the      *)
(* wrapper objects (struct Lame), the liblame contexts they point at, the  *)
(* two error mappers and the length conversions of encode.                 *)
(*                                                                         *)
(* Numbers wider than 31 bits (u32 sample rates, usize buffer lengths) are *)
(* kept as pairs of base-2^16 digits [hi, lo], value hi * 2^16 + lo, so    *)
(* that the `as` conversions keep their real width.                        *)
(***************************************************************************)
EXTENDS Integers, Sequences, FiniteSets, TLC

VARIABLES
    ctx,         \* the Lame values: ctx[c] = [status, ptr]
    be,          \* liblame's contexts by address (lame_global_flags)
    closeCalls,  \* closeCalls[c]: lame_close calls made by Lame value c
    faults,      \* backend calls made on a null or a freed handle
    hist,        \* hist[c]: what the calls on c have returned so far (see Follow)
    last         \* the last call on the wrapper: operation, inputs, result

vars == <<ctx, be, closeCalls, faults, hist, last>>

----------------------------------------------------------------------------
(* Bounds of the model *)

\* number of wrapper instances (calls of Lame::new that may succeed)
MaxCtx == 2
\* number of addresses lame_init can hand out
MaxAddr == 2

Ctx == 1..MaxCtx
Addr == 1..MaxAddr
\* ptr::null_mut()
NULL == 0

----------------------------------------------------------------------------
(* Machine integers *)

Base == 256 * 256
Half == 128 * 256

\* c_int::max_value()
c_int_max == 2147483647
c_int_min == (-2147483647) - 1

\* a u32 or usize value as two base-2^16 digits
W(h, l) == [hi |-> h, lo |-> l]
\* the wide form of a non-negative c_int
WideOf(n) == W(n \div Base, n % Base)

\* `x as c_int` for x: u32 -- keeps the 32 bits, reinterprets the sign bit
\* faulty variant: clamps to c_int::max_value() instead of wrapping
u32_as_c_int_saturating(u) ==
    IF u.hi >= Half THEN c_int_max ELSE u.hi * Base + u.lo

u32_as_c_int(u) ==
    IF u.hi >= Half THEN (u.hi - Base) * Base + u.lo ELSE u.hi * Base + u.lo

\* `x as u32` for x: c_int -- the value modulo 2^32
c_int_as_u32(x) == W((x \div Base) % Base, x % Base)

\* `x as c_int` for x: u8 -- zero extension
u8_as_c_int(b) == b

\* `x as u8` for x: c_int -- the low 8 bits
c_int_as_u8(x) == x % 256

\* `sz as c_int` for sz: usize -- the low 32 bits, reinterpreted as signed
usize_as_c_int(sz) == u32_as_c_int(W(sz.hi % Base, sz.lo))

\* `retn as usize` for a non-negative c_int
c_int_as_usize(n) == WideOf(n)

----------------------------------------------------------------------------
(* Error taxonomy *)

Variant(v, c) == [variant |-> v, code |-> c]

\* impl From<c_int> for Error
\* faulty variant: -11 and -12 exchanged
ErrorFrom_swapped(errcode) ==
    CASE errcode = 0 -> Variant("Ok", 0)
      [] errcode = -1 -> Variant("GenericError", 0)
      [] errcode = -10 -> Variant("NoMem", 0)
      [] errcode = -11 -> Variant("BadSampleFreq", 0)
      [] errcode = -12 -> Variant("BadBitRate", 0)
      [] errcode = -13 -> Variant("InternalError", 0)
      [] OTHER -> Variant("Unknown", errcode)

ErrorFrom(errcode) ==
    CASE errcode = 0 -> Variant("Ok", 0)
      [] errcode = -1 -> Variant("GenericError", 0)
      [] errcode = -10 -> Variant("NoMem", 0)
      [] errcode = -11 -> Variant("BadBitRate", 0)
      [] errcode = -12 -> Variant("BadSampleFreq", 0)
      [] errcode = -13 -> Variant("InternalError", 0)
      [] OTHER -> Variant("Unknown", errcode)

\* results: kind is "Ok" (unit or byte count in w), "Err" (variant, code),
\* "Value" (a getter's value: n, or w for a u32), "Some", "None", "Panic",
\* "Dropped"
Res(k, v, c, n, w) == [kind |-> k, variant |-> v, code |-> c, n |-> n, w |-> w]
NoRes == Res("-", "-", 0, 0, W(0, 0))
OkUnit == Res("Ok", "-", 0, 0, W(0, 0))
OkBytes(w) == Res("Ok", "-", 0, 0, w)
ErrRes(e) == Res("Err", e.variant, e.code, 0, W(0, 0))
ValueN(n) == Res("Value", "-", 0, n, W(0, 0))
ValueW(w) == Res("Value", "-", 0, 0, w)
PanicRes == Res("Panic", "-", 0, 0, W(0, 0))

handle_simple_error(retn) ==
    LET e == ErrorFrom(retn) IN
    IF e.variant = "Ok" THEN OkUnit ELSE ErrRes(e)

\* the match on retn at the end of Lame::encode
\* faulty variant: a return of 0 taken for an error
EncodeResult_zeroIsError(retn) ==
    CASE retn = -1 -> ErrRes(Variant("OutputBufferTooSmall", 0))
      [] retn = -2 -> ErrRes(Variant("NoMem", 0))
      [] retn = -3 -> ErrRes(Variant("InitParamsNotCalled", 0))
      [] retn = -4 -> ErrRes(Variant("PsychoAcousticError", 0))
      [] OTHER -> IF retn <= 0 THEN ErrRes(Variant("Unknown", retn))
                  ELSE OkBytes(c_int_as_usize(retn))

\* faulty variant: negative codes sent through the lifecycle mapper
EncodeResult_sharedCodes(retn) ==
    IF retn < 0 THEN ErrRes(ErrorFrom(retn)) ELSE OkBytes(c_int_as_usize(retn))

EncodeResult(retn) ==
    CASE retn = -1 -> ErrRes(Variant("OutputBufferTooSmall", 0))
      [] retn = -2 -> ErrRes(Variant("NoMem", 0))
      [] retn = -3 -> ErrRes(Variant("InitParamsNotCalled", 0))
      [] retn = -4 -> ErrRes(Variant("PsychoAcousticError", 0))
      [] OTHER -> IF retn < 0 THEN ErrRes(Variant("Unknown", retn))
                  ELSE OkBytes(c_int_as_usize(retn))

\* fn int_size: panics when sz > c_int::max_value() as usize
\* faulty variant: the range test left out
int_size_unchecked(sz) == [panic |-> FALSE, val |-> usize_as_c_int(sz)]

int_size(sz) ==
    IF sz.hi > Half - 1
    THEN [panic |-> TRUE, val |-> 0]
    ELSE [panic |-> FALSE, val |-> usize_as_c_int(sz)]

\* the length test that opens Lame::encode
\* faulty variant: the length test left out
len_mismatch_ignored(l, r) == FALSE

len_mismatch(l, r) == l # r

----------------------------------------------------------------------------
(* liblame, as seen through lame_sys: a backend that stores what a setter  *)
(* accepted, echoes it from the getter, and answers -3 to an encode that   *)
(* precedes a successful lame_init_params                                  *)

\* "Defaults to 44100 Hz", "Defaults to 2"
DefaultSampleRate == 44100
DefaultChannels == 2

\* a context as lame_init leaves it (quality and bitrate start at liblame's
\* own "unset" values, -1 and 0), and a free slot; fed is the encode state:
\* whether lame_encode_buffer has been given samples
Fresh(s) ==
    [st |-> s, in_samplerate |-> DefaultSampleRate, num_channels |-> DefaultChannels,
     quality |-> -1, brate |-> 0, committed |-> FALSE, fed |-> FALSE]

\* what is wrong with handle h, if anything
bad(h) == IF h = NULL THEN {"null"} ELSE IF be[h].st # "live" THEN {"freed"} ELSE {}

\* lame_init(): null, or the address of a new context
lame_init_returns == {NULL} \cup {a \in Addr : be[a].st = "free"}
lame_init(h) == IF h = NULL THEN be ELSE [be EXCEPT ![h] = Fresh("live")]

\* lame_set_in_samplerate, lame_set_num_channels, lame_set_quality, lame_set_brate
lame_set(h, field, x, rc) ==
    IF bad(h) = {} /\ rc = 0 THEN [be EXCEPT ![h][field] = x] ELSE be

\* lame_get_in_samplerate, lame_get_num_channels, lame_get_quality, lame_get_brate
lame_get(h, field) == IF bad(h) = {} THEN be[h][field] ELSE 0

\* lame_init_params
lame_init_params(h, rc) ==
    IF bad(h) = {} /\ rc = 0 THEN [be EXCEPT ![h].committed = TRUE] ELSE be

\* lame_encode_buffer: the codes it may return, and its effect
lame_encode_buffer_returns(h, rc) ==
    IF bad(h) = {} THEN (rc = -3) <=> ~be[h].committed ELSE TRUE
lame_encode_buffer(h) ==
    IF bad(h) = {} THEN [be EXCEPT ![h].fed = TRUE] ELSE be

\* lame_close
lame_close(h) == IF bad(h) = {} THEN [be EXCEPT ![h] = Fresh("free")] ELSE be

----------------------------------------------------------------------------
(* struct Lame and its operations *)

Call(o, c, u, v, l, r, ob, rc, tr, ps, rs) ==
    [op |-> o, ctx |-> c, u |-> u, v |-> v, left |-> l, right |-> r, out |-> ob,
     rc |-> rc, trace |-> tr, passed |-> ps, res |-> rs]
Z == W(0, 0)

\* self.ptr
\* faulty variant: one handle shared by every Lame value
self_ptr_global(c) ==
    IF \E d \in Ctx : ctx[d].status = "alive"
    THEN ctx[CHOOSE d \in Ctx : ctx[d].status = "alive" /\
                     \A e \in Ctx : ctx[e].status = "alive" => d <= e].ptr
    ELSE ctx[c].ptr

self_ptr(c) == ctx[c].ptr

\* ctx == ptr::null_mut()
\* faulty variant: the null test left out
is_null_never(h) == FALSE

is_null(h) == h = NULL

\* Lame::new
new(c, h) ==
    /\ ctx[c].status = "none"
    /\ h \in lame_init_returns
    /\ be' = lame_init(h)
    /\ IF is_null(h)
       THEN /\ ctx' = ctx
            /\ last' = Call("new", c, Z, 0, Z, Z, Z, 0, <<"lame_init">>, <<0, 0>>,
                            Res("None", "-", 0, 0, Z))
       ELSE /\ ctx' = [ctx EXCEPT ![c] = [status |-> "alive", ptr |-> h]]
            /\ last' = Call("new", c, Z, 0, Z, Z, Z, 0, <<"lame_init">>, <<0, 0>>,
                            Res("Some", "-", 0, 0, Z))
    /\ UNCHANGED <<closeCalls, faults>>

\* the four getters: one backend read, converted to the caller's type
Getter(c, o, fn, rs) ==
    /\ ctx[c].status = "alive"
    /\ faults' = faults \cup bad(self_ptr(c))
    /\ last' = Call(o, c, Z, 0, Z, Z, Z, 0, <<fn>>, <<0, 0>>, rs)
    /\ UNCHANGED <<ctx, be, closeCalls>>

\* Lame::sample_rate
sample_rate(c) ==
    Getter(c, "sample_rate", "lame_get_in_samplerate",
           ValueW(c_int_as_u32(lame_get(self_ptr(c), "in_samplerate"))))

\* Lame::channels
channels(c) ==
    Getter(c, "channels", "lame_get_num_channels",
           ValueN(c_int_as_u8(lame_get(self_ptr(c), "num_channels"))))

\* Lame::quality
quality(c) ==
    Getter(c, "quality", "lame_get_quality",
           ValueN(c_int_as_u8(lame_get(self_ptr(c), "quality"))))

\* Lame::kilobitrate
kilobitrate(c) ==
    Getter(c, "kilobitrate", "lame_get_brate", ValueN(lame_get(self_ptr(c), "brate")))

\* the four setters: one backend write of the converted value, its status
\* code through handle_simple_error
Setter(c, o, fn, field, x, u, v, rc) ==
    /\ ctx[c].status = "alive"
    /\ be' = lame_set(self_ptr(c), field, x, rc)
    /\ faults' = faults \cup bad(self_ptr(c))
    /\ last' = Call(o, c, u, v, Z, Z, Z, rc, <<fn>>, <<0, 0>>, handle_simple_error(rc))
    /\ UNCHANGED <<ctx, closeCalls>>

\* Lame::set_sample_rate
set_sample_rate(c, sr, rc) ==
    Setter(c, "set_sample_rate", "lame_set_in_samplerate", "in_samplerate",
           u32_as_c_int(sr), sr, 0, rc)

\* Lame::set_channels
set_channels(c, n, rc) ==
    Setter(c, "set_channels", "lame_set_num_channels", "num_channels",
           u8_as_c_int(n), Z, n, rc)

\* Lame::set_quality
set_quality(c, q, rc) ==
    Setter(c, "set_quality", "lame_set_quality", "quality", u8_as_c_int(q), Z, q, rc)

\* Lame::set_kilobitrate
set_kilobitrate(c, k, rc) ==
    Setter(c, "set_kilobitrate", "lame_set_brate", "brate", k, Z, k, rc)

\* Lame::init_params
\* faulty variant: closes the context when the commit fails
init_params_closing(c, rc) ==
    /\ ctx[c].status = "alive"
    /\ be' = IF rc = 0 THEN lame_init_params(self_ptr(c), rc) ELSE lame_close(self_ptr(c))
    /\ faults' = faults \cup bad(self_ptr(c))
    /\ ctx' = IF rc = 0 THEN ctx ELSE [ctx EXCEPT ![c].status = "dropped"]
    /\ closeCalls' = IF rc = 0 THEN closeCalls ELSE [closeCalls EXCEPT ![c] = @ + 1]
    /\ last' = Call("init_params", c, Z, 0, Z, Z, Z, rc, <<"lame_init_params">>,
                    <<0, 0>>, handle_simple_error(rc))

init_params(c, rc) ==
    /\ ctx[c].status = "alive"
    /\ be' = lame_init_params(self_ptr(c), rc)
    /\ faults' = faults \cup bad(self_ptr(c))
    /\ last' = Call("init_params", c, Z, 0, Z, Z, Z, rc, <<"lame_init_params">>,
                    <<0, 0>>, handle_simple_error(rc))
    /\ UNCHANGED <<ctx, closeCalls>>

\* Lame::encode, with buffers of l, r and o elements; rc is what
\* lame_encode_buffer returns when the call reaches it
encode(c, l, r, o, rc) ==
    /\ ctx[c].status = "alive"
    /\ IF len_mismatch(l, r) \/ int_size(l).panic \/ int_size(o).panic
       THEN /\ last' = Call("encode", c, Z, 0, l, r, o, 0, <<>>, <<0, 0>>, PanicRes)
            /\ UNCHANGED <<be, faults>>
       ELSE /\ lame_encode_buffer_returns(self_ptr(c), rc)
            /\ be' = lame_encode_buffer(self_ptr(c))
            /\ faults' = faults \cup bad(self_ptr(c))
            /\ last' = Call("encode", c, Z, 0, l, r, o, rc, <<"lame_encode_buffer">>,
                            <<int_size(l).val, int_size(o).val>>, EncodeResult(rc))
    /\ UNCHANGED <<ctx, closeCalls>>

\* impl Drop for Lame; the result records what the call before it on the same
\* value returned (the exit path the drop is on)
\* faulty variant: the value stays usable after lame_close, so it can be dropped again
drop_twice(c) ==
    /\ ctx[c].status = "alive"
    /\ be' = lame_close(self_ptr(c))
    /\ faults' = faults \cup bad(self_ptr(c))
    /\ closeCalls' = [closeCalls EXCEPT ![c] = @ + 1]
    /\ last' = Call("drop", c, Z, 0, Z, Z, Z, 0, <<"lame_close">>, <<0, 0>>,
                    Res("Dropped", IF last.ctx = c THEN last.res.kind ELSE "-", 0, 0, Z))
    /\ UNCHANGED ctx

drop(c) ==
    /\ ctx[c].status = "alive"
    /\ be' = lame_close(self_ptr(c))
    /\ faults' = faults \cup bad(self_ptr(c))
    /\ ctx' = [ctx EXCEPT ![c].status = "dropped"]
    /\ closeCalls' = [closeCalls EXCEPT ![c] = @ + 1]
    /\ last' = Call("drop", c, Z, 0, Z, Z, Z, 0, <<"lame_close">>, <<0, 0>>,
                    Res("Dropped", IF last.ctx = c THEN last.res.kind ELSE "-", 0, 0, Z))

----------------------------------------------------------------------------
(* Specifications *)

Init ==
    /\ ctx = [c \in Ctx |-> [status |-> "none", ptr |-> NULL]]
    /\ be = [a \in Addr |-> Fresh("free")]
    /\ closeCalls = [c \in Ctx |-> 0]
    /\ faults = {}
    /\ hist = [c \in Ctx |->
                 [phase |-> "clean", set |-> {}, sr |-> Z, ch |-> 0, q |-> 0, kb |-> 0]]
    /\ last = Call("-", 0, Z, 0, Z, Z, Z, 0, <<>>, <<0, 0>>, NoRes)

\* hist follows the calls of one context. phase: "failed" once init_params has
\* returned an error, "recommitted" once it has succeeded after that. set, sr,
\* ch, q, kb: which parameters a setter has returned success for, and the
\* value the caller gave last
Follow(h, l) ==
    LET ok == l.res.kind = "Ok" IN
    CASE l.op = "init_params" /\ l.res.kind = "Err" /\ h.phase = "clean" ->
           [h EXCEPT !.phase = "failed"]
      [] l.op = "init_params" /\ ok /\ h.phase = "failed" ->
           [h EXCEPT !.phase = "recommitted"]
      [] l.op = "set_sample_rate" /\ ok ->
           [h EXCEPT !.set = @ \cup {"sample_rate"}, !.sr = l.u]
      [] l.op = "set_channels" /\ ok -> [h EXCEPT !.set = @ \cup {"channels"}, !.ch = l.v]
      [] l.op = "set_quality" /\ ok -> [h EXCEPT !.set = @ \cup {"quality"}, !.q = l.v]
      [] l.op = "set_kilobitrate" /\ ok ->
           [h EXCEPT !.set = @ \cup {"kilobitrate"}, !.kb = l.v]
      [] OTHER -> h

Followed(c) == hist' = [hist EXCEPT ![c] = Follow(hist[c], last')]

\* Status codes and values the callers and the backend are drawn from
SmallCodes == {0, -1}
SmallEncCodes == {-3, 0, -1}
SmallLens == {W(0, 1152), W(0, 0)}

\* The lifecycle of several contexts: creation, one setter (the four share
\* Setter), commit, encode and drop, interleaved in every order
Next ==
    \/ \E c \in Ctx, h \in Addr \cup {NULL} : new(c, h) /\ UNCHANGED hist
    \/ \E c \in Ctx, rc \in SmallCodes :
          set_sample_rate(c, W(0, 48000), rc) /\ UNCHANGED hist
    \/ \E c \in Ctx, rc \in SmallCodes : init_params(c, rc) /\ UNCHANGED hist
    \/ \E c \in Ctx, l \in SmallLens, r \in SmallLens, rc \in SmallEncCodes :
          encode(c, l, r, W(0, 8192), rc) /\ UNCHANGED hist
    \/ \E c \in Ctx : drop(c) /\ UNCHANGED hist

Spec == Init /\ [][Next]_vars

\* One context under every status code the backend may answer with: the
\* documented ones of both families, undocumented negative ones, positive
\* ones and the two ends of c_int
Codes == {0, -1, -10, -11, -12, -13, -2, -14, 1, c_int_min, c_int_max}
EncCodes == {-1, -2, -3, -4, -5, -10, c_int_min, 0, 1, 417, c_int_max}

NextCodes ==
    \E c \in {1} :
        \/ \E h \in Addr \cup {NULL} : new(c, h) /\ Followed(c)
        \/ \E rc \in Codes : set_sample_rate(c, W(0, 48000), rc) /\ Followed(c)
        \/ \E rc \in Codes : set_channels(c, 1, rc) /\ Followed(c)
        \/ \E rc \in Codes : set_quality(c, 5, rc) /\ Followed(c)
        \/ \E rc \in Codes : set_kilobitrate(c, 128, rc) /\ Followed(c)
        \/ \E rc \in Codes : init_params(c, rc) /\ Followed(c)
        \/ \E r \in SmallLens, rc \in EncCodes :
              encode(c, W(0, 1152), r, W(0, 8192), rc) /\ Followed(c)
        \/ drop(c) /\ Followed(c)

SpecCodes == Init /\ [][NextCodes]_vars

\* One context under the values at the edges of each parameter's type and
\* the buffer lengths around c_int::max_value()
SampleRates == {W(0, 48000), W(Half - 1, Base - 1), W(Half, 0), W(Base - 1, Base - 1)}
ChannelCounts == {1, 255}
Qualities == {5, 255}
Kilobitrates == {128, c_int_min}
\* <<left, right, out>> lengths: in range, at c_int::max_value(), one above
\* it, and 2^32 above a small length
Buffers ==
    {<<W(0, 1152), W(0, 1152), W(0, 8192)>>,
     <<W(0, 1152), W(0, 1152), W(0, 0)>>,
     <<W(0, 0), W(0, 0), W(Half - 1, Base - 1)>>,
     <<W(Half - 1, Base - 1), W(Half - 1, Base - 1), W(0, 8192)>>,
     <<W(0, 1152), W(0, 1151), W(0, 8192)>>,
     <<W(0, 0), W(0, 1152), W(0, 8192)>>,
     <<W(Half, 0), W(0, 1152), W(0, 8192)>>,
     <<W(0, 1152), W(Half, 0), W(0, 8192)>>,
     <<W(Half, 0), W(Half, 0), W(0, 8192)>>,
     <<W(Base, 1152), W(Base, 1152), W(0, 8192)>>,
     <<W(0, 1152), W(0, 1152), W(Half, 0)>>,
     <<W(0, 1152), W(0, 1152), W(Base, 8192)>>}

NextValues ==
    \E c \in {1} :
        \/ \E h \in Addr \cup {NULL} : new(c, h) /\ Followed(c)
        \/ sample_rate(c) /\ Followed(c)
        \/ \E sr \in SampleRates, rc \in SmallCodes :
              set_sample_rate(c, sr, rc) /\ Followed(c)
        \/ channels(c) /\ Followed(c)
        \/ \E n \in ChannelCounts, rc \in SmallCodes :
              set_channels(c, n, rc) /\ Followed(c)
        \/ quality(c) /\ Followed(c)
        \/ \E q \in Qualities, rc \in SmallCodes : set_quality(c, q, rc) /\ Followed(c)
        \/ kilobitrate(c) /\ Followed(c)
        \/ \E k \in Kilobitrates, rc \in SmallCodes :
              set_kilobitrate(c, k, rc) /\ Followed(c)
        \/ \E rc \in SmallCodes : init_params(c, rc) /\ Followed(c)
        \/ \E b \in Buffers, rc \in SmallEncCodes :
              encode(c, b[1], b[2], b[3], rc) /\ Followed(c)
        \/ drop(c) /\ Followed(c)

SpecValues == Init /\ [][NextValues]_vars

----------------------------------------------------------------------------
(* Properties *)

Alive(c) == ctx[c].status = "alive"
SetterOps == {"set_sample_rate", "set_channels", "set_quality", "set_kilobitrate"}
\* a length above c_int::max_value(), that is, at least 2^31
TooBig(w) == w.hi >= Half
\* the number a wide value stands for (below 2^31)
Num(w) == w.hi * Base + w.lo

\* C1: every context is closed exactly once: lame_close has been called never
\* for a context that does not exist yet or is alive, and once for a dropped
\* one, whatever the call before the drop returned; no backend call is made on
\* a closed handle; and a dropped context stays dropped and makes no call.
C1_ClosedExactlyOnce ==
    /\ [](/\ \A c \in Ctx :
              /\ ctx[c].status \in {"none", "alive"} => closeCalls[c] = 0
              /\ ctx[c].status = "dropped" => closeCalls[c] = 1
              /\ Alive(c) => be[ctx[c].ptr].st = "live"
          /\ "freed" \notin faults)
    /\ [][\A c \in Ctx :
            ctx[c].status = "dropped" =>
              /\ ctx'[c] = ctx[c]
              /\ closeCalls'[c] = closeCalls[c]
              /\ last' # last => last'.ctx # c]_vars

\* a context dropped right after its encode panicked, closed once
C1_Witness ==
    \E c \in Ctx :
        /\ ctx[c].status = "dropped" /\ closeCalls[c] = 1
        /\ last.op = "drop" /\ last.ctx = c /\ last.res.variant = "Panic"
        /\ be[ctx[c].ptr].st = "free"

\* C2: an encode with left and right of different lengths panics, makes no
\* backend call and leaves the backend as it was, committed or not.
C2_MismatchPanicsBeforeBackend ==
    [][(last'.op = "encode" /\ last'.left # last'.right) =>
         /\ last'.res = PanicRes
         /\ last'.trace = <<>>
         /\ be' = be
         /\ faults' = faults]_vars

\* a committed context whose encode, given two valid but different lengths,
\* panicked
C2_Witness ==
    /\ last.op = "encode" /\ last.res.kind = "Panic"
    /\ last.left # last.right /\ ~TooBig(last.left) /\ ~TooBig(last.right)
    /\ Alive(last.ctx) /\ be[ctx[last.ctx].ptr].committed

\* C3: a setter or init_params returns unit for status 0, the documented
\* variant for -1, -10, -11, -12, -13, and Unknown with the code for every
\* other value, positive ones included.
C3_LifecycleMapperTotal ==
    last.op \in SetterOps \cup {"init_params"} =>
      last.res =
        CASE last.rc = 0 -> Res("Ok", "-", 0, 0, Z)
          [] last.rc = -1 -> Res("Err", "GenericError", 0, 0, Z)
          [] last.rc = -10 -> Res("Err", "NoMem", 0, 0, Z)
          [] last.rc = -11 -> Res("Err", "BadBitRate", 0, 0, Z)
          [] last.rc = -12 -> Res("Err", "BadSampleFreq", 0, 0, Z)
          [] last.rc = -13 -> Res("Err", "InternalError", 0, 0, Z)
          [] OTHER -> Res("Err", "Unknown", last.rc, 0, Z)

\* a setter answered with a positive status code returned Unknown of it
C3_Witness ==
    /\ last.op \in SetterOps /\ last.rc > 0
    /\ last.res.variant = "Unknown" /\ last.res.code = last.rc

\* C4: the result of an encode that reached the backend is fixed by the code
\* returned: the four documented errors, Unknown for other negative codes,
\* and a byte count equal to the code for every code >= 0; -1 is
\* OutputBufferTooSmall here and GenericError in a lifecycle call.
C4_EncodeMapper ==
    /\ (last.op = "encode" /\ last.trace # <<>>) =>
         /\ last.res.kind \in {"Ok", "Err"}
         /\ last.rc = -1 => last.res = Res("Err", "OutputBufferTooSmall", 0, 0, Z)
         /\ last.rc = -2 => last.res = Res("Err", "NoMem", 0, 0, Z)
         /\ last.rc = -3 => last.res = Res("Err", "InitParamsNotCalled", 0, 0, Z)
         /\ last.rc = -4 => last.res = Res("Err", "PsychoAcousticError", 0, 0, Z)
         /\ last.rc < -4 => last.res = Res("Err", "Unknown", last.rc, 0, Z)
         /\ last.rc >= 0 =>
              /\ last.res.kind = "Ok" /\ last.res.variant = "-"
              /\ Num(last.res.w) = last.rc
    /\ (last.op \in SetterOps \cup {"init_params"} /\ last.rc = -1) =>
         last.res.variant = "GenericError"

\* an encode on a committed context that returned a byte count of 0
C4_Witness ==
    /\ last.op = "encode" /\ last.rc = 0 /\ last.res = OkBytes(Z)
    /\ be[ctx[last.ctx].ptr].committed

C6_LengthsFitCInt ==
    last.op = "encode" =>
      /\ (TooBig(last.left) \/ TooBig(last.right) \/ TooBig(last.out)) =>
           last.res = PanicRes /\ last.trace = <<>>
      /\ (last.left = last.right /\ ~TooBig(last.left) /\ ~TooBig(last.out)) =>
           /\ last.trace = <<"lame_encode_buffer">>
           /\ last.passed = <<Num(last.left), Num(last.out)>>
      /\ last.trace # <<>> =>
           /\ last.passed[1] >= 0 /\ WideOf(last.passed[1]) = last.left
           /\ last.passed[2] >= 0 /\ WideOf(last.passed[2]) = last.out

\* an encode of two equal sample buffers 2^32 elements longer than a small
\* length, which panicked
C6_Witness ==
    /\ last.op = "encode" /\ last.res.kind = "Panic"
    /\ last.left = last.right /\ last.left.hi >= Base /\ ~TooBig(last.out)

\* C7: two live contexts never hold the same handle, and a call on one
\* context changes neither another context's wrapper state and close count
\* nor the backend context another live one points at.
C7_ContextsIndependent ==
    /\ [](\A c, d \in Ctx : (c # d /\ Alive(c) /\ Alive(d)) => ctx[c].ptr # ctx[d].ptr)
    /\ [][\A d \in Ctx :
            last'.ctx # d =>
              /\ ctx'[d] = ctx[d]
              /\ closeCalls'[d] = closeCalls[d]
              /\ Alive(d) => be'[ctx[d].ptr] = be[ctx[d].ptr]]_vars

\* one context has just been dropped while another, configured and
\* committed, lives on
C7_Witness ==
    \E c, d \in Ctx :
        /\ c # d /\ ctx[c].status = "dropped" /\ Alive(d)
        /\ last.op = "drop" /\ last.ctx = c
        /\ be[ctx[d].ptr].committed /\ be[ctx[d].ptr].fed
        /\ be[ctx[d].ptr].in_samplerate = 48000

\* C8: a getter returns the value its setter was last given with success,
\* for each of the four parameters, and a setter that returned an error
\* left the backend, hence every getter's answer, as it was.
C8_SetGetRoundTrip ==
    /\ [](/\ (last.op = "sample_rate" /\ "sample_rate" \in hist[last.ctx].set) =>
              last.res = ValueW(hist[last.ctx].sr)
          /\ (last.op = "channels" /\ "channels" \in hist[last.ctx].set) =>
              last.res = ValueN(hist[last.ctx].ch)
          /\ (last.op = "quality" /\ "quality" \in hist[last.ctx].set) =>
              last.res = ValueN(hist[last.ctx].q)
          /\ (last.op = "kilobitrate" /\ "kilobitrate" \in hist[last.ctx].set) =>
              last.res = ValueN(hist[last.ctx].kb))
    /\ [][(last'.op \in SetterOps /\ last'.res.kind = "Err") => be' = be]_vars

\* the sample rate 2^32 - 1 read back, from a backend holding -1
C8_Witness ==
    /\ last.op = "sample_rate" /\ last.res = ValueW(W(Base - 1, Base - 1))
    /\ hist[last.ctx].sr = W(Base - 1, Base - 1)
    /\ be[ctx[last.ctx].ptr].in_samplerate = -1

C10_HandleNeverNull ==
    /\ \A c \in Ctx : ctx[c].status # "none" => ctx[c].ptr # NULL
    /\ (last.op = "new" /\ last.res.kind = "None") => ctx[last.ctx].status = "none"
    /\ (last.op = "new" /\ last.res.kind = "Some") => ctx[last.ctx].ptr \in Addr
    /\ "null" \notin faults

\* Lame::new has just returned None while another context is alive
C10_Witness ==
    /\ last.op = "new" /\ last.res.kind = "None" /\ ctx[last.ctx].status = "none"
    /\ \E d \in Ctx : Alive(d)

====
